---- MODULE Spec2Model ----
(***************************************************************************)
(* Three programs of the repository as state machines.                     *)
(*                                                                         *)
(* The job-shop program of src/JobShop.py:                                 *)
(*   build_model (lines 102-165), solve_model (168-179),                   *)
(*   build_response (182-220) and the unpacking of its result (233).       *)
(* The batch variant of src/SchedulingRoman.py:                            *)
(*   build_model (5-147), solve_model (150-161), build_response (164-199). *)
(* The enumeration of src/EmployeeScheduling.py:                           *)
(*   build_model (19-70) and the solution callback (76-106).               *)
(*                                                                         *)
(* The CP-SAT solver is an external oracle: it is modelled by the meaning  *)
(* of the constraints build_model hands to it (JobShop.py docstring,       *)
(* 46-93). Each specification runs one program; the variables of the       *)
(* other two keep the values they have when the program is not run.        *)
(* Python ids are kept 0-based: task (job_id, task_id) is                  *)
(* jobs_data[job_id + 1][task_id + 1] here, and a task tuple               *)
(* (machine, duration) is <<machine, duration>>.                           *)
(***************************************************************************)
EXTENDS Integers, Sequences, FiniteSets, TLC

VARIABLES
    jobs_data,            \* the instance handed to build_model
    pc,                   \* the statement the program is at
    limited,              \* TRUE when a budget ends the solver's search early
    machines_count,       \* JobShop.py:103
    horizon,              \* JobShop.py:106
    model,                \* the CpModel under construction (JobShop.py:109)
    machine_to_intervals, \* JobShop.py:118, a defaultdict(list)
    status,               \* the status solver.Solve returns
    solver,               \* the solver after Solve: variable values and objective
    printed,              \* the message solve_model prints, "" when none
    response,             \* what build_response returns: <<>> is None
    raised,               \* the exception that ended the run, "" when none
    \* the batch program of src/SchedulingRoman.py
    input_data,           \* SchedulingRoman.py:203
    b_pc,                 \* the statement the batch program is at
    b_model,              \* the CpModel of SchedulingRoman.py:12, <<>> before it
    b_status,             \* the status of SchedulingRoman.py:152
    b_solver,             \* the solver after Solve: the values of the variables
    b_printed,            \* the message solve_model prints, "" when none
    b_response,           \* what build_response returns, <<>> before it
    b_raised,             \* the exception that ended the batch run, "" when none
    \* the enumeration of src/EmployeeScheduling.py
    num_nurses,           \* EmployeeScheduling.py:111
    num_shifts,           \* EmployeeScheduling.py:112
    num_days,             \* EmployeeScheduling.py:113
    solution_limit,       \* EmployeeScheduling.py:117
    n_model,              \* the CpModel of EmployeeScheduling.py:21, <<>> before it
    n_pc,                 \* the statement the enumeration is at
    solution_count,       \* NursesPartialSolutionPrinter._solution_count
    n_printed,            \* the solutions on_solution_callback printed, in order
    n_stopped             \* TRUE once StopSearch was called

jobshop_vars ==
    <<jobs_data, pc, limited, machines_count, horizon, model,
      machine_to_intervals, status, solver, printed, response, raised>>

batch_vars ==
    <<input_data, b_pc, b_model, b_status, b_solver, b_printed, b_response,
      b_raised>>

nurses_vars ==
    <<num_nurses, num_shifts, num_days, solution_limit, n_model, n_pc,
      solution_count, n_printed, n_stopped>>

vars == <<jobshop_vars, batch_vars, nurses_vars>>

\* the batch program is not run
BatchOff ==
    /\ input_data = <<>>
    /\ b_pc = "off"
    /\ b_model = <<>>
    /\ b_status = ""
    /\ b_solver = [values |-> <<>>, objective |-> 0]
    /\ b_printed = ""
    /\ b_response = <<>>
    /\ b_raised = ""

\* the enumeration is not run
NursesOff ==
    /\ num_nurses = 0
    /\ num_shifts = 0
    /\ num_days = 0
    /\ solution_limit = 0
    /\ n_model = <<>>
    /\ n_pc = "off"
    /\ solution_count = 0
    /\ n_printed = <<>>
    /\ n_stopped = FALSE

----------------------------------------------------------------------------
(* Bounds of the instances explored. *)

\* the largest number of tasks of an instance, all jobs together
MaxTasks == 3

\* the largest sum of durations of an instance
MaxHorizon == 3

\* machine ids of the instances explored
Machines == {0, 1}

\* machine ids and durations of the unvalidated instances explored
RawMachines == {-1, 0, 1}

RawDurations == {-1, 0, 1, 2}

PositiveDurations == {1, 2}

----------------------------------------------------------------------------
(* Sequences and tuples. *)

Range(s) == {s[i] : i \in DOMAIN s}

RECURSIVE SumSeq(_)
SumSeq(s) == IF s = <<>> THEN 0 ELSE Head(s) + SumSeq(Tail(s))

RECURSIVE Concat(_)
Concat(ss) == IF ss = <<>> THEN <<>> ELSE Head(ss) \o Concat(Tail(ss))

MaxOf(S) == CHOOSE x \in S : \A y \in S : y <= x

machine_of(task) == task[1]

duration_of(task) == task[2]

\* jobs_data[job_id][task_id]
task_at(jd, key) == jd[key[1] + 1][key[2] + 1]

\* the (job_id, task_id) pairs in the order of the loops
\* "for job_id, job in enumerate(jobs_data): for task_id, task in enumerate(job)"
enumerate_tasks(jd) ==
    Concat([j \in 1..Len(jd) |-> [t \in 1..Len(jd[j]) |-> <<j - 1, t - 1>>]])

\* a defaultdict(list) read: a missing key reads as the empty list
dd_get(dd, k) == IF k \in DOMAIN dd THEN dd[k] ELSE <<>>

----------------------------------------------------------------------------
(* build_model *)

\* 1 + max(task[0] for job in jobs_data for task in job)
machines_count_of(jd) ==
    1 + MaxOf({machine_of(task_at(jd, k)) : k \in Range(enumerate_tasks(jd))})

\* the horizon as the largest duration instead of the sum
horizon_max(jd) ==
    MaxOf({duration_of(task_at(jd, k)) : k \in Range(enumerate_tasks(jd))})

\* sum(task[1] for job in jobs_data for task in job)
horizon_of(jd) ==
    LET keys == enumerate_tasks(jd)
    IN  SumSeq([i \in 1..Len(keys) |-> duration_of(task_at(jd, keys[i]))])

\* range(machines_count)
all_machines_of(count) == 0..(count - 1)

\* cp_model.CpModel(): no variable, no constraint
CpModel ==
    [intervals |-> <<>>, no_overlap |-> <<>>, precedences |-> {},
     obj_var |-> <<>>, max_equality |-> <<>>, minimize |-> FALSE]

\* NewIntervalVar with a size one too long
NewIntervalVar_long(key, hz, duration) ==
    [key |-> key, lb |-> 0, ub |-> hz, size |-> duration + 1]

\* start_var and end_var in [0, horizon], linked by the interval of the given size
NewIntervalVar(key, hz, duration) ==
    [key |-> key, lb |-> 0, ub |-> hz, size |-> duration]

\* the loop of lines 120-140: one interval per task, in enumeration order
intervals_of(jd, hz) ==
    LET keys == enumerate_tasks(jd)
    IN  [i \in 1..Len(keys) |->
            NewIntervalVar(keys[i], hz, duration_of(task_at(jd, keys[i])))]

\* machine_to_intervals[machine].append(interval_var), in enumeration order
machine_lists_of(jd) ==
    LET keys == enumerate_tasks(jd)
        used == {machine_of(task_at(jd, k)) : k \in Range(keys)}
    IN  [m \in used |->
            SelectSeq(keys, LAMBDA k : machine_of(task_at(jd, k)) = m)]

\* the loop of line 143 stopping one machine early
no_overlap_short(dd, count) ==
    [i \in 1..(count - 1) |-> Range(dd_get(dd, i - 1))]

\* for machine in all_machines: model.AddNoOverlap(machine_to_intervals[machine])
no_overlap_of(dd, count) ==
    [i \in 1..count |-> Range(dd_get(dd, i - 1))]

\* the defaultdict after the reads of line 144: every machine read has a list
touched(dd, count) ==
    [m \in (DOMAIN dd) \cup all_machines_of(count) |-> dd_get(dd, m)]

\* the loop of line 148 stopping one pair early: range(len(job) - 2)
precedences_short(jd) ==
    UNION {{[before |-> <<j - 1, t>>, after |-> <<j - 1, t + 1>>] :
                t \in 0..(Len(jd[j]) - 3)} : j \in 1..Len(jd)}

\* model.Add(all_tasks[job_id, task_id + 1].start >= all_tasks[job_id, task_id].end)
\* for task_id in range(len(job) - 1)
precedences_of(jd) ==
    UNION {{[before |-> <<j - 1, t>>, after |-> <<j - 1, t + 1>>] :
                t \in 0..(Len(jd[j]) - 2)} : j \in 1..Len(jd)}

\* the objective over the first task of every job instead of the last
first_ends_of(jd) == [j \in 1..Len(jd) |-> <<j - 1, 0>>]

\* [all_tasks[job_id, len(job) - 1].end for job_id, job in enumerate(jobs_data)]
last_ends_of(jd) == [j \in 1..Len(jd) |-> <<j - 1, Len(jd[j]) - 1>>]

all_tasks_of(m) == {m.intervals[i].key : i \in DOMAIN m.intervals}

BuildHeader ==
    /\ pc = "build_model"
    /\ IF enumerate_tasks(jobs_data) = <<>>
       THEN \* max() of an empty sequence
            /\ pc' = "raised"
            /\ raised' = "ValueError"
            /\ UNCHANGED <<machines_count, horizon, model>>
       ELSE /\ machines_count' = machines_count_of(jobs_data)
            /\ horizon' = horizon_of(jobs_data)
            /\ model' = CpModel
            /\ pc' = "intervals"
            /\ UNCHANGED raised
    /\ UNCHANGED <<jobs_data, limited, machine_to_intervals, status, solver, printed, response>>
    /\ UNCHANGED <<batch_vars, nurses_vars>>

CreateIntervals ==
    /\ pc = "intervals"
    /\ model' = [model EXCEPT !.intervals = intervals_of(jobs_data, horizon)]
    /\ machine_to_intervals' = machine_lists_of(jobs_data)
    /\ pc' = "no_overlap"
    /\ UNCHANGED <<jobs_data, limited, machines_count, horizon, status, solver,
                   printed, response, raised>>
    /\ UNCHANGED <<batch_vars, nurses_vars>>

AddNoOverlaps ==
    /\ pc = "no_overlap"
    /\ model' = [model EXCEPT
                    !.no_overlap = no_overlap_of(machine_to_intervals, machines_count)]
    /\ machine_to_intervals' = touched(machine_to_intervals, machines_count)
    /\ pc' = "precedences"
    /\ UNCHANGED <<jobs_data, limited, machines_count, horizon, status, solver,
                   printed, response, raised>>
    /\ UNCHANGED <<batch_vars, nurses_vars>>

AddPrecedences ==
    /\ pc = "precedences"
    /\ model' = [model EXCEPT !.precedences = precedences_of(jobs_data)]
    /\ pc' = "objective"
    /\ UNCHANGED <<jobs_data, limited, machines_count, horizon,
                   machine_to_intervals, status, solver, printed, response, raised>>
    /\ UNCHANGED <<batch_vars, nurses_vars>>

AddObjective ==
    /\ pc = "objective"
    /\ LET with_var == [model EXCEPT !.obj_var = <<[lb |-> 0, ub |-> horizon]>>]
           exprs == last_ends_of(jobs_data)
       IN  IF \E i \in DOMAIN exprs : exprs[i] \notin all_tasks_of(model)
           THEN \* all_tasks[job_id, -1] of a job without tasks
                /\ model' = with_var
                /\ pc' = "raised"
                /\ raised' = "KeyError"
           ELSE /\ model' = [with_var EXCEPT !.max_equality = <<exprs>>,
                                             !.minimize = TRUE]
                /\ pc' = "solve_model"
                /\ UNCHANGED raised
    /\ UNCHANGED <<jobs_data, limited, machines_count, horizon,
                   machine_to_intervals, status, solver, printed, response>>
    /\ UNCHANGED <<batch_vars, nurses_vars>>

----------------------------------------------------------------------------
(* The solver: the assignments that satisfy the constraints of a built     *)
(* model, and the least objective value among them.                        *)

\* an interval variable's values: start and end in [lb, ub], end = start + size
interval_values(iv) ==
    {[start |-> s, end |-> s + iv.size] :
        s \in {x \in iv.lb..iv.ub : x + iv.size \in iv.lb..iv.ub}}

\* two intervals of one AddNoOverlap: one ends before the other starts
disjoint(a, b) == a.start >= b.end \/ b.start >= a.end

\* interval key takes value v, next to the values f of the intervals before it:
\* every constraint whose variables all have a value holds, and the objective
\* (the maximum of the ends listed in max_equality) stays <= bound
consistent(m, f, key, v, bound) ==
    /\ \A i \in DOMAIN m.no_overlap :
          key \in m.no_overlap[i] =>
             \A other \in (m.no_overlap[i] \cap DOMAIN f) \ {key} :
                disjoint(v, f[other])
    /\ \A p \in m.precedences :
          /\ (p.after = key /\ p.before \in DOMAIN f) => v.start >= f[p.before].end
          /\ (p.before = key /\ p.after \in DOMAIN f) => f[p.after].start >= v.end
    /\ \A i \in DOMAIN m.max_equality :
          key \in Range(m.max_equality[i]) => v.end <= bound

\* the assignments of the first n intervals
RECURSIVE assignments(_, _, _)
assignments(m, n, bound) ==
    IF n = 0
    THEN {<<>>}
    ELSE LET iv == m.intervals[n]
         IN  UNION {{(iv.key :> v) @@ f :
                        v \in {w \in interval_values(iv) :
                                 consistent(m, f, iv.key, w, bound)}} :
                    f \in assignments(m, n - 1, bound)}

\* the solutions of the model whose objective is at most bound
solutions(m, bound) == assignments(m, Len(m.intervals), bound)

\* AddMaxEquality(obj_var, exprs): the value of obj_var in a solution
objective_of(m, f) == MaxOf({f[k].end : k \in Range(m.max_equality[1])})

\* Minimize(obj_var): the least objective of a solution, -1 when there is none
RECURSIVE least_objective(_, _)
least_objective(m, bound) ==
    IF bound > m.obj_var[1].ub THEN -1
    ELSE IF solutions(m, bound) # {} THEN bound
    ELSE least_objective(m, bound + 1)

\* a variable with an empty domain or an interval of negative size
model_valid(m) ==
    /\ \A i \in DOMAIN m.intervals :
          m.intervals[i].lb <= m.intervals[i].ub /\ m.intervals[i].size >= 0
    /\ \A i \in DOMAIN m.obj_var : m.obj_var[i].lb <= m.obj_var[i].ub

no_solution(st) == [status |-> st, values |-> <<>>, objective |-> 0]

found(m, st, f) == [status |-> st, values |-> f, objective |-> objective_of(m, f)]

\* solver.Solve(model): what the solver may answer. A search that runs to its
\* end proves optimality or infeasibility; a search cut short by its budget
\* returns the solution it has, proved nothing about it, or returns none.
solve_outcomes(m, lim) ==
    IF ~model_valid(m)
    THEN {no_solution("MODEL_INVALID"), no_solution("INFEASIBLE")}
    ELSE IF lim
    THEN {found(m, "FEASIBLE", f) : f \in solutions(m, m.obj_var[1].ub)}
         \cup {no_solution("UNKNOWN")}
    ELSE LET best == least_objective(m, m.obj_var[1].lb)
         IN  IF best = -1
             THEN {no_solution("INFEASIBLE")}
             ELSE {found(m, "OPTIMAL", f) : f \in solutions(m, best)}

\* the if/elif chain of lines 172-177
message_of(st) ==
    CASE st = "OPTIMAL" -> "OPTIMAL Solution Founded"
      [] st = "FEASIBLE" -> "FEASIBLE Solution Founded"
      [] st = "INFEASIBLE" -> "INFEASIBLE Problem"
      [] OTHER -> ""

Solve ==
    /\ pc = "solve_model"
    /\ \E o \in solve_outcomes(model, limited) :
          /\ status' = o.status
          /\ solver' = [values |-> o.values, objective |-> o.objective]
          /\ printed' = message_of(o.status)
    /\ pc' = "build_response"
    /\ UNCHANGED <<jobs_data, limited, machines_count, horizon, model,
                   machine_to_intervals, response, raised>>
    /\ UNCHANGED <<batch_vars, nurses_vars>>

----------------------------------------------------------------------------
(* build_response *)

\* the order of Python tuples (start, job, index, duration)
tuple_less(a, b) ==
    \E i \in 1..4 : a[i] < b[i] /\ \A j \in 1..(i - 1) : a[j] = b[j]

RECURSIVE insert_sorted(_, _)
insert_sorted(x, s) ==
    IF s = <<>> THEN <<x>>
    ELSE IF tuple_less(x, Head(s)) THEN <<x>> \o s
    ELSE <<Head(s)>> \o insert_sorted(x, Tail(s))

\* the list left in the order of the appends
sort_none(s) == s

\* list.sort()
RECURSIVE sort(_)
sort(s) == IF s = <<>> THEN <<>> ELSE insert_sorted(Head(s), sort(Tail(s)))

\* assigned_jobs[machine] after the loops of lines 192-199
assigned_jobs_of(jd, values, machine) ==
    LET keys == SelectSeq(enumerate_tasks(jd),
                          LAMBDA k : machine_of(task_at(jd, k)) = machine)
    IN  [i \in 1..Len(keys) |->
            <<values[keys[i]].start, keys[i][1], keys[i][2],
              duration_of(task_at(jd, keys[i]))>>]

\* output_dict['Machine' + str(machine)]: one line per assigned task, in sorted
\* order, 'job:{},task:{}' -> 'start:{},end:{}' with end = start + duration
machine_lines(jd, values, machine) ==
    LET sorted == sort(assigned_jobs_of(jd, values, machine))
    IN  [i \in 1..Len(sorted) |->
            [job |-> sorted[i][2], index |-> sorted[i][3],
             start |-> sorted[i][1], end |-> sorted[i][1] + sorted[i][4]]]

output_dict_of(jd, values, count) ==
    [machine \in all_machines_of(count) |-> machine_lines(jd, values, machine)]

\* build_response(solver, status, all_tasks, all_machines): the pair returned
\* at line 220, <<>> for the None of a call that falls off the end
build_response_of(st, slv, jd, count) ==
    IF st = "OPTIMAL" \/ st = "FEASIBLE"
    THEN <<[optimal_makespan |-> slv.objective,
            output_dict |-> output_dict_of(jd, slv.values, count)]>>
    ELSE <<>>

\* a decoder that uses up the objective value it reads
BuildResponse_consuming ==
    /\ pc = "build_response"
    /\ response' = build_response_of(status, solver, jobs_data, machines_count)
    /\ solver' = [solver EXCEPT !.objective = 0]
    /\ pc' = "unpack"
    /\ UNCHANGED <<jobs_data, limited, machines_count, horizon, model,
                   machine_to_intervals, status, printed, raised>>
    /\ UNCHANGED <<batch_vars, nurses_vars>>

BuildResponse ==
    /\ pc = "build_response"
    /\ response' = build_response_of(status, solver, jobs_data, machines_count)
    /\ pc' = "unpack"
    /\ UNCHANGED <<jobs_data, limited, machines_count, horizon, model,
                   machine_to_intervals, status, solver, printed, raised>>
    /\ UNCHANGED <<batch_vars, nurses_vars>>

\* a second call of build_response with the same arguments, after line 233;
\* its result is kept next to the first
BuildResponseAgain ==
    /\ pc = "done"
    /\ response' = response
                      \o build_response_of(status, solver, jobs_data, machines_count)
    /\ pc' = "decoded_twice"
    /\ UNCHANGED <<jobs_data, limited, machines_count, horizon, model,
                   machine_to_intervals, status, solver, printed, raised>>
    /\ UNCHANGED <<batch_vars, nurses_vars>>

\* optimal_makespan, output_dict = build_response(...) (line 233)
Unpack ==
    /\ pc = "unpack"
    /\ IF response = <<>>
       THEN pc' = "raised" /\ raised' = "TypeError"
       ELSE pc' = "done" /\ UNCHANGED raised
    /\ UNCHANGED <<jobs_data, limited, machines_count, horizon, model,
                   machine_to_intervals, status, solver, printed, response>>
    /\ UNCHANGED <<batch_vars, nurses_vars>>

----------------------------------------------------------------------------
(* The batch variant of src/SchedulingRoman.py: build_model (5-147).       *)
(* Every batch i has the indicators A_I[i, k] and A_O[i, k], the integer   *)
(* variables of lines 39-83 and four intervals; the constraints are the    *)
(* same for every batch, so the model keeps them once, by variable name.   *)

\* sum of g[k] over the keys in S
RECURSIVE SumOver(_, _)
SumOver(S, g) ==
    IF S = {} THEN 0
    ELSE LET k == CHOOSE x \in S : TRUE IN g[k] + SumOver(S \ {k}, g)

\* NewIntVar(lb, ub)
NewIntVar(lb, ub) == [lb |-> lb, ub |-> ub]

\* the integer variables of one batch (lines 39-83)
int_vars_of(d) ==
    [S_INPUT |-> NewIntVar(d.Tmin, d.Tmax),
     S_BUFFER |-> NewIntVar(d.Tmin, d.Tmax),
     S_OUTPUT |-> NewIntVar(d.Tmin, d.Tmax),
     D_INPUT |-> NewIntVar(d.Tmin, d.Tmax),
     D_BUFFER |-> NewIntVar(1, d.Tmax),
     D_OUTPUT |-> NewIntVar(d.Tmin, d.Tmax),
     E_INPUT |-> NewIntVar(d.Tmin, d.Tmax),
     E_BUFFER |-> NewIntVar(d.Tmin, d.Tmax),
     E_OUTPUT |-> NewIntVar(d.Tmin, d.Tmax),
     V_BUFFER_1 |-> NewIntVar(0, d.VMaxBuffer),
     V_BUFFER_2 |-> NewIntVar(0, d.VMaxBuffer)]

\* the size of an interval: a variable, or the constant V
size_var(name) == [var |-> name, const |-> 0]

size_const(c) == [var |-> "", const |-> c]

\* the interval variables of one batch (lines 86-105)
interval_vars_of(d) ==
    [B_INPUT |-> [start |-> "S_INPUT", size |-> size_var("D_INPUT"),
                  end |-> "E_INPUT"],
     B_BUFFER |-> [start |-> "S_BUFFER", size |-> size_var("D_BUFFER"),
                   end |-> "E_BUFFER"],
     B_OUTPUT |-> [start |-> "S_OUTPUT", size |-> size_var("D_OUTPUT"),
                   end |-> "E_OUTPUT"],
     V_BUFFER |-> [start |-> "V_BUFFER_1", size |-> size_const(d.V),
                   end |-> "V_BUFFER_2"]]

\* lines 108-112 with the sum over the indicators left unconstrained
sum_one_none(d) == {}

\* model.Add(sum(A_I[(i, k)] for k in inputs) == 1) and the same for A_O
sum_one_of(d) == {"A_I", "A_O"}

\* lines 115-118 with the output options on the output duration
only_enforce_if_split(d) ==
    {[lit |-> <<"A_I", k>>, var |-> "D_INPUT", value |-> d.Tin[k]] :
        k \in Range(d.Inputs)}
    \cup {[lit |-> <<"A_O", k>>, var |-> "D_OUTPUT", value |-> d.Tout[k]] :
             k \in Range(d.Outputs)}

\* model.Add(D_INPUT[i] == T_in[k]).OnlyEnforceIf(A_I[i, k]) and
\* model.Add(D_INPUT[i] == T_out[k]).OnlyEnforceIf(A_O[i, k])
only_enforce_if_of(d) ==
    {[lit |-> <<"A_I", k>>, var |-> "D_INPUT", value |-> d.Tin[k]] :
        k \in Range(d.Inputs)}
    \cup {[lit |-> <<"A_O", k>>, var |-> "D_INPUT", value |-> d.Tout[k]] :
             k \in Range(d.Outputs)}

\* model.Add(S_BUFFER[i] == E_INPUT[i]); model.Add(S_OUTPUT[i] == E_BUFFER[i])
equalities_of(d) == {<<"S_BUFFER", "E_INPUT">>, <<"S_OUTPUT", "E_BUFFER">>}

\* line 124 with the volume intervals left out: no constraint between batches
no_overlap_2d_none(d) == <<>>

\* model.AddNoOverlap2D(B_BUFFER.values(), V_BUFFER.values())
no_overlap_2d_of(d) == <<[x |-> "B_BUFFER", y |-> "V_BUFFER"]>>

\* build_model(input_data_instance): the model returned at line 147
batch_model_of(d) ==
    [batches |-> 0..(d.NoBatches - 1),
     bools |-> [A_I |-> Range(d.Inputs), A_O |-> Range(d.Outputs)],
     ints |-> int_vars_of(d),
     intervals |-> interval_vars_of(d),
     sum_one |-> sum_one_of(d),
     only_enforce_if |-> only_enforce_if_of(d),
     equalities |-> equalities_of(d),
     no_overlap_2d |-> no_overlap_2d_of(d),
     minimize |-> [var |-> "E_BUFFER", batch |-> d.NoBatches - 1]]

BatchBuildModel ==
    /\ b_pc = "build_model"
    /\ IF input_data.NoBatches <= 0
       THEN \* E_BUFFER[number_batches - 1] of an empty dict (line 127)
            /\ b_pc' = "raised"
            /\ b_raised' = "KeyError"
            /\ UNCHANGED b_model
       ELSE /\ b_model' = batch_model_of(input_data)
            /\ b_pc' = "solve_model"
            /\ UNCHANGED b_raised
    /\ UNCHANGED <<input_data, b_status, b_solver, b_printed, b_response>>
    /\ UNCHANGED <<jobshop_vars, nurses_vars>>

----------------------------------------------------------------------------
(* The solver on a batch model: the assignments that satisfy its           *)
(* constraints, and the least value of the minimised variable among them.  *)

\* the order in which the search gives the variables of one batch a value
search_order ==
    <<"A_I", "A_O", "D_INPUT", "S_INPUT", "E_INPUT", "S_BUFFER", "D_BUFFER",
      "E_BUFFER", "S_OUTPUT", "D_OUTPUT", "E_OUTPUT", "V_BUFFER_1",
      "V_BUFFER_2">>

\* the values of a variable: 0 or 1 for each key of an indicator dict,
\* lb..ub for an integer variable
domain_of(m, name) ==
    IF name \in DOMAIN m.bools
    THEN [m.bools[name] -> {0, 1}]
    ELSE m.ints[name].lb..m.ints[name].ub

\* the variables an interval links
interval_scope(iv) ==
    {iv.start, iv.end} \cup (IF iv.size.var = "" THEN {} ELSE {iv.size.var})

size_value(f, sz) == IF sz.var = "" THEN sz.const ELSE f[sz.var]

\* every constraint of one batch whose variables all have a value in f holds
batch_holds(m, f) ==
    /\ \A a \in m.sum_one :
          a \in DOMAIN f => SumOver(m.bools[a], f[a]) = 1
    /\ \A c \in m.only_enforce_if :
          (c.var \in DOMAIN f /\ c.lit[1] \in DOMAIN f)
             => (f[c.lit[1]][c.lit[2]] = 1 => f[c.var] = c.value)
    /\ \A n \in DOMAIN m.intervals :
          interval_scope(m.intervals[n]) \subseteq DOMAIN f
             => /\ size_value(f, m.intervals[n].size) >= 0
                /\ f[m.intervals[n].start] + size_value(f, m.intervals[n].size)
                      = f[m.intervals[n].end]
    /\ \A e \in m.equalities :
          (e[1] \in DOMAIN f /\ e[2] \in DOMAIN f) => f[e[1]] = f[e[2]]

\* the assignments of the first n variables of one batch
RECURSIVE batch_assignments(_, _)
batch_assignments(m, n) ==
    IF n = 0
    THEN {<<>>}
    ELSE UNION {{(search_order[n] :> v) @@ f :
                    v \in {w \in domain_of(m, search_order[n]) :
                             batch_holds(m, (search_order[n] :> w) @@ f)}} :
                f \in batch_assignments(m, n - 1)}

\* the rectangle of a batch in one AddNoOverlap2D: [x1, x2) x [y1, y2)
box_of(m, c, f) ==
    [x1 |-> f[m.intervals[c.x].start], x2 |-> f[m.intervals[c.x].end],
     y1 |-> f[m.intervals[c.y].start], y2 |-> f[m.intervals[c.y].end]]

boxes_disjoint(a, b) ==
    a.x2 <= b.x1 \/ b.x2 <= a.x1 \/ a.y2 <= b.y1 \/ b.y2 <= a.y1

\* the assignments of batches 0 .. n-1, each drawn from per_batch, with the
\* rectangles of every AddNoOverlap2D pairwise disjoint and the minimised
\* variable <= bound
RECURSIVE batch_solutions(_, _, _, _)
batch_solutions(m, per_batch, n, bound) ==
    IF n = 0
    THEN {<<>>}
    ELSE UNION {{((n - 1) :> g) @@ s :
                    g \in {h \in per_batch :
                             /\ \A i \in DOMAIN m.no_overlap_2d :
                                   \A j \in DOMAIN s :
                                      boxes_disjoint(
                                          box_of(m, m.no_overlap_2d[i], h),
                                          box_of(m, m.no_overlap_2d[i], s[j]))
                             /\ m.minimize.batch = n - 1
                                   => h[m.minimize.var] <= bound}} :
                s \in batch_solutions(m, per_batch, n - 1, bound)}

\* model.Minimize(E_BUFFER[number_batches - 1]): the value in a solution
batch_objective_of(m, s) == s[m.minimize.batch][m.minimize.var]

\* the least objective of a solution, -1 when there is none
RECURSIVE batch_least(_, _, _)
batch_least(m, per_batch, bound) ==
    IF bound > m.ints[m.minimize.var].ub THEN -1
    ELSE IF batch_solutions(m, per_batch, Cardinality(m.batches), bound) # {}
    THEN bound
    ELSE batch_least(m, per_batch, bound + 1)

\* a variable with an empty domain
batch_model_valid(m) ==
    \A name \in DOMAIN m.ints : m.ints[name].lb <= m.ints[name].ub

batch_found(m, st, s) ==
    [status |-> st, values |-> s, objective |-> batch_objective_of(m, s)]

\* solver.Solve(model) of line 152, as solve_outcomes above
batch_solve_outcomes(m, lim) ==
    IF ~batch_model_valid(m)
    THEN {no_solution("MODEL_INVALID"), no_solution("INFEASIBLE")}
    ELSE LET per_batch == batch_assignments(m, Len(search_order))
             n == Cardinality(m.batches)
         IN  IF lim
             THEN {batch_found(m, "FEASIBLE", s) :
                     s \in batch_solutions(m, per_batch, n,
                                           m.ints[m.minimize.var].ub)}
                  \cup {no_solution("UNKNOWN")}
             ELSE LET best == batch_least(m, per_batch,
                                          m.ints[m.minimize.var].lb)
                  IN  IF best = -1
                      THEN {no_solution("INFEASIBLE")}
                      ELSE {batch_found(m, "OPTIMAL", s) :
                              s \in batch_solutions(m, per_batch, n, best)}

\* the if/elif chain of lines 154-159
batch_message_of(st) ==
    CASE st = "OPTIMAL" -> "Optimal Solution Founded"
      [] st = "FEASIBLE" -> "Feasible Solution Founded"
      [] st = "INFEASIBLE" -> "INFEASIBLE Problem"
      [] OTHER -> ""

BatchSolve ==
    /\ b_pc = "solve_model"
    /\ \E o \in batch_solve_outcomes(b_model, limited) :
          /\ b_status' = o.status
          /\ b_solver' = [values |-> o.values, objective |-> o.objective]
          /\ b_printed' = batch_message_of(o.status)
    /\ b_pc' = "build_response"
    /\ UNCHANGED <<input_data, b_model, b_response, b_raised>>
    /\ UNCHANGED <<jobshop_vars, nurses_vars>>

----------------------------------------------------------------------------
(* build_response of the batch variant (164-199): it reads the value of    *)
(* every variable whatever the status is.                                  *)

\* what solver.Value may give when Solve stored no solution
UnsetValues == {0, 1}

\* the reads of build_response: solver.Value(variables[name][i]) and
\* solver.Value(variables[name][(i, k)])
value_reads_of(m, values) ==
    [ints |-> [i \in m.batches |-> [name \in DOMAIN m.ints |-> values[i][name]]],
     bools |-> [name \in DOMAIN m.bools |->
                  [key \in m.batches \X m.bools[name] |->
                      values[key[1]][name][key[2]]]]]

\* the same reads when every one of them gives g
unset_reads_of(m, g) ==
    [ints |-> [i \in m.batches |-> [name \in DOMAIN m.ints |-> g]],
     bools |-> [name \in DOMAIN m.bools |->
                  [key \in m.batches \X m.bools[name] |-> g]]]

\* one row of df_integer (lines 165-178)
df_integer_row(i, ints) ==
    [No_Bach |-> i,
     V_Buffer_1 |-> ints.V_BUFFER_1, V_Buffer_2 |-> ints.V_BUFFER_2,
     E_Buffer |-> ints.E_BUFFER, S_Buffer |-> ints.S_BUFFER,
     D_Buffer |-> ints.D_BUFFER,
     E_Input |-> ints.E_INPUT, E_Output |-> ints.E_OUTPUT,
     S_Input |-> ints.S_INPUT, S_Output |-> ints.S_OUTPUT,
     D_Input |-> ints.D_INPUT, D_Output |-> ints.D_OUTPUT]

\* create_dataframe_binary(var_name, dim): one row per option of input_data[dim],
\* one column 'Batch_{i+1}' per batch
create_dataframe_binary(d, reads, var_name, dim) ==
    [k \in Range(d[dim]) |->
        [column \in 1..d.NoBatches |-> reads.bools[var_name][<<column - 1, k>>]]]

\* the tuple returned at line 199
batch_response_of(d, reads) ==
    [df_integer |-> [i \in 0..(d.NoBatches - 1) |->
                        df_integer_row(i, reads.ints[i])],
     results_binary |-> [A_I |-> reads.bools.A_I, A_O |-> reads.bools.A_O],
     df_AI |-> create_dataframe_binary(d, reads, "A_I", "Inputs"),
     df_AO |-> create_dataframe_binary(d, reads, "A_O", "Outputs")]

\* build_response has no test of the status. Reading a value the solver did
\* not store is undefined: the read raises, or it gives some value.
BatchBuildResponse ==
    /\ b_pc = "build_response"
    /\ IF b_solver.values # <<>>
       THEN /\ b_response' =
                  <<batch_response_of(input_data,
                                      value_reads_of(b_model, b_solver.values))>>
            /\ b_pc' = "done"
            /\ UNCHANGED b_raised
       ELSE \/ /\ b_pc' = "raised"
               /\ b_raised' = "IndexError"
               /\ UNCHANGED b_response
            \/ /\ \E g \in UnsetValues :
                     b_response' =
                        <<batch_response_of(input_data,
                                            unset_reads_of(b_model, g))>>
               /\ b_pc' = "done"
               /\ UNCHANGED b_raised
    /\ UNCHANGED <<input_data, b_model, b_status, b_solver, b_printed>>
    /\ UNCHANGED <<jobshop_vars, nurses_vars>>

----------------------------------------------------------------------------
(* The instances and the specification of the batch variant. *)

\* the largest number of batches
MaxBatches == 2

\* Tmax of the instances explored
MaxTime == 3

\* the largest VMaxBuffer
MaxVolume == 2

\* the transfer times of the options
TransferTimes == {1, 2}

\* input_data as of lines 203-218: two input options taking 1 and 2 as IN1
\* and IN2 do there, two output options, V = 1, Tmin = 0
BatchInstances ==
    [NoBatches : 1..MaxBatches,
     Inputs : {<<"IN1", "IN2">>},
     Outputs : {<<"ROP1", "ROP2">>},
     V : {1},
     VMaxBuffer : 0..MaxVolume,
     Tin : {("IN1" :> 1) @@ ("IN2" :> 2)},
     Tout : [{"ROP1", "ROP2"} -> TransferTimes],
     Tmin : {0},
     Tmax : {MaxTime}]

\* the job-shop program is not run
JobShopOff ==
    /\ jobs_data = <<>>
    /\ pc = "off"
    /\ machines_count = 0
    /\ horizon = 0
    /\ model = CpModel
    /\ machine_to_intervals = <<>>
    /\ status = ""
    /\ solver = [values |-> <<>>, objective |-> 0]
    /\ printed = ""
    /\ response = <<>>
    /\ raised = ""

InitBatchWith(d) ==
    /\ input_data = d
    /\ b_pc = "build_model"
    /\ b_model = <<>>
    /\ b_status = ""
    /\ b_solver = [values |-> <<>>, objective |-> 0]
    /\ b_printed = ""
    /\ b_response = <<>>
    /\ b_raised = ""
    /\ JobShopOff
    /\ NursesOff

\* solve_model sets no time limit: the search runs to its end
InitBatch ==
    /\ \E d \in BatchInstances : InitBatchWith(d)
    /\ limited = FALSE

NextBatch ==
    \/ BatchBuildModel
    \/ BatchSolve
    \/ BatchBuildResponse

SpecBatch == InitBatch /\ [][NextBatch]_vars

----------------------------------------------------------------------------
(* A search that a budget may end early, on the instances of one batch. *)

InitBatchLimited ==
    /\ \E d \in {i \in BatchInstances : i.NoBatches = 1} : InitBatchWith(d)
    /\ limited = TRUE

SpecBatchLimited == InitBatchLimited /\ [][NextBatch]_vars

\* what build_solution of src/EmployeeSchedulingWithShiftRequest.py prints
\* first for a status (lines 79-80 and 103-104), "" when nothing
build_solution_message(st) ==
    IF st = "OPTIMAL" \/ st = "FEASIBLE" THEN "Optimal Solution"
    ELSE IF st = "INFEASIBLE"
    THEN "Infeasible Problem: No optimal solution found !"
    ELSE ""

----------------------------------------------------------------------------
(* The enumeration of src/EmployeeScheduling.py: build_model (19-70), the  *)
(* solution callback (76-106) and the module body (109-138).               *)
(* shifts[(n, d, s)] is the key <<n, d, s>>; every constraint of the model *)
(* bounds the sum of the variables of some keys.                           *)

\* lb <= sum(shifts[key] for key in keys) <= ub
linear(keys, lb, ub) == [keys |-> keys, lb |-> lb, ub |-> ub]

\* model.Add(sum(shifts[(n, d, s)] for n in all_nurses) == 1), lines 34-36
one_nurse_per_shift(nurses, days, shifts) ==
    {linear({<<n, d, s>> : n \in nurses}, 1, 1) : <<d, s>> \in days \X shifts}

\* a model without the constraint of lines 40-42
one_shift_per_day_none(nurses, days, shifts) == {}

\* model.AddAtMostOne(shifts[(n, d, s)] for s in all_shifts), lines 40-42
one_shift_per_day(nurses, days, shifts) ==
    {linear({<<n, d, s>> : s \in shifts}, 0, 1) : <<n, d>> \in nurses \X days}

\* lines 50-54
min_shifts_per_nurse_of(nurses_n, shifts_n, days_n) ==
    (shifts_n * days_n) \div nurses_n

\* a bound that leaves the distribution free
max_shifts_any(nurses_n, shifts_n, days_n) == shifts_n * days_n

max_shifts_per_nurse_of(nurses_n, shifts_n, days_n) ==
    IF (shifts_n * days_n) % nurses_n = 0
    THEN min_shifts_per_nurse_of(nurses_n, shifts_n, days_n)
    ELSE min_shifts_per_nurse_of(nurses_n, shifts_n, days_n) + 1

\* model.Add(min_shifts_per_nurse <= sum(num_shifts_worked)) and
\* model.Add(sum(num_shifts_worked) <= max_shifts_per_nurse), lines 55-61
shifts_worked(nurses, days, shifts, least, most) ==
    {linear({<<n, d, s>> : <<d, s>> \in days \X shifts}, least,
            Cardinality(days \X shifts)) : n \in nurses}
    \cup {linear({<<n, d, s>> : <<d, s>> \in days \X shifts}, 0, most) :
             n \in nurses}

\* build_model(all_nurses, all_days, num_shifts, num_days, num_nurses); the
\* shifts of the loops are the global all_shifts = range(num_shifts)
nurses_model_of(nurses_n, shifts_n, days_n) ==
    LET nurses == 0..(nurses_n - 1)
        days == 0..(days_n - 1)
        shifts == 0..(shifts_n - 1)
    IN  [shifts |-> nurses \X days \X shifts,
         constraints |->
            one_nurse_per_shift(nurses, days, shifts)
            \cup one_shift_per_day(nurses, days, shifts)
            \cup shifts_worked(nurses, days, shifts,
                               min_shifts_per_nurse_of(nurses_n, shifts_n, days_n),
                               max_shifts_per_nurse_of(nurses_n, shifts_n, days_n)),
         enumerate_all_solutions |-> TRUE]

\* the variables given a value in f can still meet the constraints cs: no
\* sum is above its upper bound, and none is too far below its lower bound
\* for the variables without a value to reach it
nurses_holds(cs, f) ==
    \A c \in cs :
        LET sofar == SumOver(c.keys \cap DOMAIN f, f)
        IN  /\ sofar <= c.ub
            /\ sofar + Cardinality(c.keys \ DOMAIN f) >= c.lb

\* the order in which the search gives the variables a value: by day, then
\* shift, then nurse
key_less(a, b) ==
    \/ a[2] < b[2]
    \/ a[2] = b[2] /\ a[3] < b[3]
    \/ a[2] = b[2] /\ a[3] = b[3] /\ a[1] < b[1]

RECURSIVE nurses_search_order(_)
nurses_search_order(keys) ==
    IF keys = {}
    THEN <<>>
    ELSE LET key == CHOOSE k \in keys :
                        \A j \in keys : j = k \/ key_less(k, j)
         IN  <<key>> \o nurses_search_order(keys \ {key})

\* the assignments of the keys in todo next to those of f; giving a key a
\* value only changes the sums of the constraints the key is in
RECURSIVE nurses_assignments(_, _, _)
nurses_assignments(m, f, todo) ==
    IF todo = <<>>
    THEN {f}
    ELSE LET key == Head(todo)
             cs == {c \in m.constraints : key \in c.keys}
         IN  UNION {nurses_assignments(m, (key :> v) @@ f, Tail(todo)) :
                       v \in {w \in {0, 1} : nurses_holds(cs, (key :> w) @@ f)}}

\* the solutions of the model
nurses_solutions(m) ==
    IF nurses_holds(m.constraints, <<>>)
    THEN nurses_assignments(m, <<>>, nurses_search_order(m.shifts))
    ELSE {}

\* what on_solution_callback prints for a solution (lines 91-100): for every
\* day and nurse the shifts worked, none when the nurse does not work
printed_solution(sol, nurses_n, days_n, shifts_n) ==
    [d \in 0..(days_n - 1) |->
        [n \in 0..(nurses_n - 1) |->
            {s \in 0..(shifts_n - 1) : sol[<<n, d, s>>] = 1}]]

NursesBuildModel ==
    /\ n_pc = "build_model"
    /\ n_model' = nurses_model_of(num_nurses, num_shifts, num_days)
    /\ solution_count' = 0
    /\ n_pc' = "solve"
    /\ UNCHANGED <<num_nurses, num_shifts, num_days, solution_limit, n_printed,
                   n_stopped>>
    /\ UNCHANGED <<jobshop_vars, batch_vars>>

\* the search finds a solution it has not found before and calls
\* on_solution_callback (lines 88-103)
OnSolutionCallback ==
    /\ n_pc = "solve"
    /\ ~n_stopped
    /\ \E sol \in nurses_solutions(n_model) :
          LET text == printed_solution(sol, num_nurses, num_days, num_shifts)
          IN  /\ text \notin Range(n_printed)
              /\ n_printed' = Append(n_printed, text)
    /\ solution_count' = solution_count + 1
    /\ n_stopped' = (solution_count + 1 >= solution_limit)
    /\ UNCHANGED <<num_nurses, num_shifts, num_days, solution_limit, n_model,
                   n_pc>>
    /\ UNCHANGED <<jobshop_vars, batch_vars>>

\* solver.Solve returns: StopSearch was called, or every solution was found
SearchEnds ==
    /\ n_pc = "solve"
    /\ IF n_stopped
       THEN TRUE
       ELSE \A sol \in nurses_solutions(n_model) :
               printed_solution(sol, num_nurses, num_days, num_shifts)
                  \in Range(n_printed)
    /\ n_pc' = "done"
    /\ UNCHANGED <<num_nurses, num_shifts, num_days, solution_limit, n_model,
                   solution_count, n_printed, n_stopped>>
    /\ UNCHANGED <<jobshop_vars, batch_vars>>

\* the sizes of the instances explored
NurseCounts == {2, 3}

DayCounts == {1, 2}

ShiftCounts == {1, 2}

\* the largest solution_limit
MaxLimit == 2

InitNurses ==
    /\ num_nurses \in NurseCounts
    /\ num_shifts \in ShiftCounts
    /\ num_days \in DayCounts
    /\ solution_limit \in 0..MaxLimit
    /\ n_model = <<>>
    /\ n_pc = "build_model"
    /\ solution_count = 0
    /\ n_printed = <<>>
    /\ n_stopped = FALSE
    /\ JobShopOff
    /\ BatchOff
    /\ limited = FALSE

NextNurses ==
    \/ NursesBuildModel
    \/ OnSolutionCallback
    \/ SearchEnds

SpecNurses == InitNurses /\ [][NextNurses]_vars

----------------------------------------------------------------------------
(* The instances and the specifications. *)

\* s cut into jobs after the positions in cuts
split(s, cuts) ==
    LET ends == {i \in 1..Len(s) : i \in cuts \/ i = Len(s)}
        first(e) == IF \E c \in ends : c < e
                    THEN 1 + MaxOf({c \in ends : c < e}) ELSE 1
        nth(k) == CHOOSE e \in ends : Cardinality({c \in ends : c <= e}) = k
    IN  [k \in 1..Cardinality(ends) |-> SubSeq(s, first(nth(k)), nth(k))]

\* job lists of the input domain: machine ids from 0, durations >= 0,
\* no job without tasks, at least one job
Instances ==
    LET tasks == Machines \X (0..MaxHorizon)
        flat == {s \in UNION {[1..n -> tasks] : n \in 1..MaxTasks} :
                    SumSeq([i \in DOMAIN s |-> s[i][2]]) <= MaxHorizon}
    IN  UNION {{split(s, cuts) : cuts \in SUBSET (1..(Len(s) - 1))} : s \in flat}

\* s cut into jobs of the lengths in lens
RECURSIVE split_lens(_, _)
split_lens(s, lens) ==
    IF lens = <<>> THEN <<>>
    ELSE <<SubSeq(s, 1, Head(lens))>>
         \o split_lens(SubSeq(s, Head(lens) + 1, Len(s)), Tail(lens))

\* job lists as build_model accepts them, without any validation: up to max
\* tasks with the given machine ids and durations, in up to max jobs of at
\* least shortest tasks (0: jobs without tasks, and no job at all)
RawInstances(max, machines, durations, shortest) ==
    LET tasks == machines \X durations
        flat == UNION {[1..n -> tasks] : n \in shortest..max}
        lens(n) == {l \in UNION {[1..k -> shortest..n] : k \in shortest..max} :
                       SumSeq(l) = n}
    IN  UNION {{split_lens(s, l) : l \in lens(Len(s))} : s \in flat}

InitWith(jd) ==
    /\ jobs_data = jd
    /\ pc = "build_model"
    /\ limited \in BOOLEAN
    /\ machines_count = 0
    /\ horizon = 0
    /\ model = CpModel
    /\ machine_to_intervals = <<>>
    /\ status = ""
    /\ solver = [values |-> <<>>, objective |-> 0]
    /\ printed = ""
    /\ response = <<>>
    /\ raised = ""
    /\ BatchOff
    /\ NursesOff

Init == \E jd \in Instances : InitWith(jd)

Next ==
    \/ BuildHeader
    \/ CreateIntervals
    \/ AddNoOverlaps
    \/ AddPrecedences
    \/ AddObjective
    \/ Solve
    \/ BuildResponse
    \/ Unpack

Spec == Init /\ [][Next]_vars

\* the instance of the __main__ block (lines 225-229); solve_model sets no
\* time limit, so the search runs to its end
ScenarioA ==
    << << <<0, 3>>, <<1, 2>>, <<2, 2>> >>,
       << <<0, 2>>, <<2, 1>>, <<1, 4>> >>,
       << <<1, 4>>, <<2, 3>> >> >>

InitA == InitWith(ScenarioA) /\ limited = FALSE

SpecA == InitA /\ [][Next]_vars

\* the program followed by a second call of the decoder
NextTwice ==
    \/ Next
    \/ BuildResponseAgain

SpecTwice == Init /\ [][NextTwice]_vars

\* unvalidated instances: every defect at once
InitRaw ==
    \E jd \in RawInstances(MaxTasks, RawMachines, RawDurations, 0) : InitWith(jd)

SpecRaw == InitRaw /\ [][Next]_vars

\* unvalidated machine ids, everything else in the input domain
InitRawMachines ==
    \E jd \in RawInstances(MaxTasks, RawMachines, PositiveDurations, 1) :
        InitWith(jd)

SpecRawMachines == InitRawMachines /\ [][Next]_vars

\* unvalidated durations, everything else in the input domain
InitRawDurations ==
    \E jd \in RawInstances(MaxTasks, Machines, RawDurations, 1) : InitWith(jd)

SpecRawDurations == InitRawDurations /\ [][Next]_vars

\* jobs without tasks and no job at all, every task in the input domain
InitRawJobs ==
    \E jd \in RawInstances(MaxTasks, Machines, PositiveDurations, 0) :
        InitWith(jd)

SpecRawJobs == InitRawJobs /\ [][Next]_vars

----------------------------------------------------------------------------
(* What the claims speak of. *)

\* the tasks of the instance
task_keys == Range(enumerate_tasks(jobs_data))

machine_at(k) == machine_of(task_at(jobs_data, k))

duration_at(k) == duration_of(task_at(jobs_data, k))

\* a Schedule was returned
Returned == status \in {"OPTIMAL", "FEASIBLE"}

\* the model is complete and was handed to the solver
Solved == pc \in {"build_response", "unpack", "done"}

start_at(k) == solver.values[k].start

\* end = start + duration
finish_at(k) == start_at(k) + duration_at(k)

\* the decoded timetable: the lines of every machine
timetable ==
    LET od == response[1].output_dict
    IN  UNION {{[machine |-> m, job |-> od[m][i].job, index |-> od[m][i].index,
                 start |-> od[m][i].start, end |-> od[m][i].end] :
                  i \in DOMAIN od[m]} : m \in DOMAIN od}

\* an assignment satisfies every constraint of a built model
satisfies(m, f) ==
    \A i \in DOMAIN m.intervals :
        LET iv == m.intervals[i]
        IN  /\ f[iv.key] \in interval_values(iv)
            /\ consistent(m, f, iv.key, f[iv.key], m.obj_var[1].ub)

\* the serial schedule: the tasks back to back in job order, one at a time
serial_schedule(jd) ==
    LET keys == enumerate_tasks(jd)
        pos(k) == CHOOSE i \in DOMAIN keys : keys[i] = k
        before(k) == SumSeq([x \in 1..(pos(k) - 1) |->
                                duration_of(task_at(jd, keys[x]))])
    IN  [k \in Range(keys) |->
            [start |-> before(k),
             end |-> before(k) + duration_of(task_at(jd, k))]]

\* start times s of the tasks keys form a valid schedule of instance jd
\* within [0, hz]
valid_schedule(keys, jd, hz, s) ==
    LET fin(k) == s[k] + duration_of(task_at(jd, k))
    IN  /\ \A k \in keys : 0 <= s[k] /\ fin(k) <= hz
        /\ \A k \in keys :
              <<k[1], k[2] + 1>> \in keys => s[<<k[1], k[2] + 1>>] >= fin(k)
        /\ \A a, b \in keys :
              (a # b /\ machine_of(task_at(jd, a)) = machine_of(task_at(jd, b)))
                 => (s[a] >= fin(b) \/ s[b] >= fin(a))

\* the end of the last task of the job that ends last
makespan_of(jd, s) ==
    MaxOf({s[<<j - 1, Len(jd[j]) - 1>>]
              + duration_of(task_at(jd, <<j - 1, Len(jd[j]) - 1>>)) :
           j \in 1..Len(jd)})

\* no valid schedule with starts in 0..top has a makespan below obj
none_shorter(keys, jd, hz, top, obj) ==
    \A s \in [keys -> 0..top] :
        valid_schedule(keys, jd, hz, s) => makespan_of(jd, s) >= obj

\* no valid schedule starts a task after its makespan
starts_within_makespan(keys, jd, hz) ==
    \A s \in [keys -> 0..hz] :
        valid_schedule(keys, jd, hz, s)
           => \A k \in keys : s[k] <= makespan_of(jd, s)

----------------------------------------------------------------------------
(* C1. Non-overlap: in every returned Schedule, for every resource R of    *)
(* the instance (the machines 0 .. machines_count - 1) any two distinct    *)
(* tasks assigned to R satisfy start_a >= end_b or start_b >= end_a, with  *)
(* end = start + duration.                                                 *)
C1_NonOverlap ==
    Returned =>
        \A R \in all_machines_of(machines_count) :
            \A a, b \in {k \in task_keys : machine_at(k) = R} :
                a # b => (start_at(a) >= finish_at(b) \/ start_at(b) >= finish_at(a))

\* a returned schedule with two tasks of positive length on one machine, the
\* second starting when the first ends
C1_Witness ==
    /\ pc = "done"
    /\ \E a, b \in task_keys :
          /\ a # b /\ machine_at(a) = machine_at(b)
          /\ duration_at(a) > 0 /\ duration_at(b) > 0
          /\ start_at(b) = finish_at(a)

(* C2. Precedence: in every returned Schedule task i+1 of a job starts no  *)
(* earlier than task i of that job ends, and the decoded timetable keeps   *)
(* the tasks of a job in their input order.                                *)
C2_Precedence ==
    /\ Returned =>
          \A k \in task_keys :
              <<k[1], k[2] + 1>> \in task_keys
                 => start_at(<<k[1], k[2] + 1>>) >= finish_at(k)
    /\ pc = "done" =>
          \A x, y \in timetable :
              (x.job = y.job /\ y.index = x.index + 1) => y.start >= x.end

\* a decoded schedule of a job with two tasks of positive length
C2_Witness ==
    /\ pc = "done"
    /\ \E k \in task_keys :
          /\ <<k[1], k[2] + 1>> \in task_keys
          /\ duration_at(k) > 0 /\ duration_at(<<k[1], k[2] + 1>>) > 0
          /\ start_at(<<k[1], k[2] + 1>>) > finish_at(k)

(* C3. Interval invariant: in every returned assignment every task has     *)
(* 0 <= start <= horizon, 0 <= end <= horizon and end - start = duration.  *)
C3_Interval ==
    Returned =>
        \A k \in task_keys :
            /\ 0 <= solver.values[k].start /\ solver.values[k].start <= horizon
            /\ 0 <= solver.values[k].end /\ solver.values[k].end <= horizon
            /\ solver.values[k].end - solver.values[k].start = duration_at(k)

\* a returned assignment with a task of positive length that starts after 0
\* and ends at the horizon
C3_Witness ==
    /\ Returned
    /\ \E k \in task_keys :
          /\ duration_at(k) > 0
          /\ solver.values[k].start > 0
          /\ solver.values[k].end = horizon

(* C4. Horizon validity: with horizon the sum of all durations, the serial *)
(* schedule lies in [0, horizon], meets every precedence and no-overlap    *)
(* constraint (as stated and as built), and has length exactly horizon; so *)
(* the built model is never infeasible and a returned makespan is at most  *)
(* horizon. The serial schedule is examined when the model is complete.    *)
C4_HorizonValid ==
    /\ pc = "solve_model" =>
          LET s == serial_schedule(jobs_data)
              starts == [k \in task_keys |-> s[k].start]
          IN  /\ valid_schedule(task_keys, jobs_data, horizon, starts)
              /\ MaxOf({s[k].end : k \in task_keys}) = horizon
              /\ satisfies(model, s)
    /\ Solved => status \notin {"INFEASIBLE", "MODEL_INVALID"}
    /\ Returned => solver.objective <= horizon

\* the solver returns the serial schedule of an instance that also has
\* shorter schedules: two tasks of positive length on different machines
C4_Witness ==
    /\ Returned
    /\ solver.values = serial_schedule(jobs_data)
    /\ \E a, b \in task_keys :
          /\ machine_at(a) # machine_at(b) /\ a[1] # b[1]
          /\ duration_at(a) > 0 /\ duration_at(b) > 0

(* C5. Objective: the makespan reported equals the largest end of a job's  *)
(* last task, and under status OPTIMAL no valid schedule of the instance   *)
(* (bounds, interval, precedence, no-overlap) has a smaller makespan.      *)
(* A valid schedule starts no task after its makespan (third conjunct,     *)
(* examined once the model is complete), so the schedules with a smaller   *)
(* makespan are among those whose starts lie below the reported value,     *)
(* and these are compared in the state the solver answers in.              *)
C5_Objective ==
    /\ Returned =>
          solver.objective =
              makespan_of(jobs_data, [k \in task_keys |-> start_at(k)])
    /\ (status = "OPTIMAL" /\ pc = "build_response") =>
          none_shorter(task_keys, jobs_data, horizon, solver.objective - 1,
                       solver.objective)
    /\ (pc = "solve_model" /\ ~limited) =>
          starts_within_makespan(task_keys, jobs_data, horizon)

\* an optimal schedule shorter than the horizon of an instance with two jobs
C5_Witness ==
    /\ status = "OPTIMAL"
    /\ Len(jobs_data) >= 2
    /\ 0 < solver.objective /\ solver.objective < horizon

\* the largest end among the lines of the decoded timetable, 0 without lines
timetable_makespan ==
    IF timetable = {} THEN 0 ELSE MaxOf({x.end : x \in timetable})

(* C6. Makespan consistency: the makespan the decoder returns always       *)
(* equals the largest end across the lines of the decoded timetable (it    *)
(* recomputes that maximum and asserts the equality).                      *)
C6_MakespanIsTimetableMax ==
    pc = "done" => response[1].optimal_makespan = timetable_makespan

(* C7. Scenario A: the three-job reference instance ends with status       *)
(* OPTIMAL and makespan exactly 11, no error is raised, the schedule       *)
(* returned is a valid schedule of length 11, and the decoded timetable    *)
(* satisfies non-overlap and precedence.                                   *)
C7_ScenarioA ==
    /\ raised = ""
    /\ Solved =>
          /\ status = "OPTIMAL"
          /\ solver.objective = 11
          /\ valid_schedule(task_keys, jobs_data, horizon,
                            [k \in task_keys |-> start_at(k)])
          /\ makespan_of(jobs_data, [k \in task_keys |-> start_at(k)]) = 11
    /\ pc = "done" =>
          /\ response[1].optimal_makespan = 11
          /\ Cardinality(timetable) = Cardinality(task_keys)
          /\ \A x, y \in timetable :
                (x # y /\ x.machine = y.machine)
                   => (x.start >= y.end \/ y.start >= x.end)
          /\ \A x, y \in timetable :
                (x.job = y.job /\ y.index = x.index + 1) => y.start >= x.end

\* the decoded timetable of one schedule of length 11
C7_Witness ==
    /\ pc = "done"
    /\ response[1].optimal_makespan = 11
    /\ response[1].output_dict[0] =
          << [job |-> 0, index |-> 0, start |-> 0, end |-> 3],
             [job |-> 1, index |-> 0, start |-> 3, end |-> 5] >>
    /\ response[1].output_dict[2][3] =
          [job |-> 2, index |-> 1, start |-> 8, end |-> 11]

(* C8. Scenario B: an instance with a task whose machine id is negative or *)
(* not below the declared machine count is rejected before the solver is   *)
(* called.                                                                 *)
C8_BadResourceRejected ==
    (\E k \in task_keys :
        machine_at(k) < 0 \/ machine_at(k) >= machines_count_of(jobs_data))
       => ~Solved

(* C9. An instance with a task of duration zero or less is rejected and    *)
(* never reaches the solver.                                               *)
C9_BadDurationRejected ==
    (\E k \in task_keys : duration_at(k) <= 0) => ~Solved

(* C10. An empty job list, or one with a job without tasks, is rejected    *)
(* before any variable or constraint is built: the solver is never called  *)
(* and no partially built model exists when the error is raised.           *)
C10_EmptyRejectedFirst ==
    (Len(jobs_data) = 0 \/ \E j \in 1..Len(jobs_data) : Len(jobs_data[j]) = 0)
       => /\ ~Solved
          /\ raised # "" => model = CpModel

----------------------------------------------------------------------------
\* every task of the instance has duration zero
all_durations_zero(jd) ==
    \A k \in Range(enumerate_tasks(jd)) : duration_of(task_at(jd, k)) = 0

\* the instances of Scenario C; solve_model sets no time limit, so the
\* search runs to its end
InitZero ==
    /\ \E jd \in {i \in Instances : all_durations_zero(i)} : InitWith(jd)
    /\ limited = FALSE

SpecZero == InitZero /\ [][Next]_vars

(* C11. Scenario C: when every duration is zero the horizon is 0, the      *)
(* instance is accepted (no error is raised and the solver is reached),    *)
(* the status is OPTIMAL, every task has start = end = 0 in the returned   *)
(* assignment and in the timetable, and the makespan is 0.                 *)
C11_ScenarioC ==
    all_durations_zero(jobs_data) =>
        /\ raised = ""
        /\ pc \notin {"build_model"} => horizon = 0
        /\ Solved =>
              /\ status = "OPTIMAL"
              /\ solver.objective = 0
              /\ \A k \in task_keys :
                    solver.values[k].start = 0 /\ solver.values[k].end = 0
        /\ pc = "done" =>
              /\ response[1].optimal_makespan = 0
              /\ Cardinality(timetable) = Cardinality(task_keys)
              /\ \A x \in timetable : x.start = 0 /\ x.end = 0

\* the decoded timetable of two jobs of zero duration that meet on a machine
C11_Witness ==
    /\ pc = "done"
    /\ all_durations_zero(jobs_data)
    /\ Len(jobs_data) >= 2
    /\ \E a, b \in task_keys : a[1] # b[1] /\ machine_at(a) = machine_at(b)
    /\ response[1].optimal_makespan = 0

\* the batch solver answered without a solution
BatchFailed == b_status \in {"INFEASIBLE", "UNKNOWN"}

(* C12. Only a status of OPTIMAL or FEASIBLE proceeds to decoding: after a *)
(* status of INFEASIBLE or UNKNOWN (timeout) the run ends with the status  *)
(* alone, no timetable is built from variable values and no error is       *)
(* raised in the caller, in the job-shop program and in the batch variant. *)
C12_StatusOnlyFailure ==
    /\ status \in {"INFEASIBLE", "UNKNOWN"} => (response = <<>> /\ raised = "")
    /\ BatchFailed => (b_response = <<>> /\ b_raised = "")

C14_ValidatedBeforeReturn == [][pc' = "done" => pc = "validate"]_vars

\* the number of lines of the decoded timetable, all machines together
timetable_lines ==
    LET od == response[1].output_dict
    IN  SumOver(DOMAIN od, [m \in DOMAIN od |-> Len(od[m])])

(* C15. Solution Decoder: the timetable decoded from an OPTIMAL or         *)
(* FEASIBLE assignment has exactly one line per task of the instance, and  *)
(* no other line; the line of a task is under the task's own machine, its  *)
(* start is the assigned start and its end is start + duration; the lines  *)
(* of a machine are in ascending order of start.                           *)
C15_Decoder ==
    pc = "done" =>
        /\ timetable_lines = Cardinality(task_keys)
        /\ \A k \in task_keys :
              [machine |-> machine_at(k), job |-> k[1], index |-> k[2],
               start |-> start_at(k), end |-> start_at(k) + duration_at(k)]
                 \in timetable
        /\ \A x \in timetable : <<x.job, x.index>> \in task_keys
        /\ \A m \in DOMAIN response[1].output_dict :
              \A i, j \in DOMAIN response[1].output_dict[m] :
                 i < j => response[1].output_dict[m][i].start
                             <= response[1].output_dict[m][j].start

\* a machine whose two lines are in the opposite order of their jobs
C15_Witness ==
    /\ pc = "done"
    /\ \E m \in DOMAIN response[1].output_dict :
          /\ Len(response[1].output_dict[m]) = 2
          /\ response[1].output_dict[m][1].job > response[1].output_dict[m][2].job
          /\ response[1].output_dict[m][1].start < response[1].output_dict[m][2].start

----------------------------------------------------------------------------
\* the batch solver returned an assignment
BatchReturned == b_status \in {"OPTIMAL", "FEASIBLE"}

\* the options of input_data[dim] whose indicator is 1 for batch i in the
\* assignment, and in the tables build_response returns
chosen(name, i) ==
    {k \in b_model.bools[name] : b_solver.values[i][name][k] = 1}

chosen_in_response(name, i) ==
    {k \in b_model.bools[name] :
        b_response[1].results_binary[name][<<i, k>>] = 1}

(* C17. Scenario D: in every assignment the batch solver returns (status   *)
(* OPTIMAL or FEASIBLE), every batch has exactly one input indicator and   *)
(* exactly one output indicator equal to 1, and the tables decoded from    *)
(* the assignment (results_binary, df_AI, df_AO) show the same.            *)
C17_ExactlyOneOption ==
    BatchReturned =>
        /\ \A i \in b_model.batches :
              /\ Cardinality(chosen("A_I", i)) = 1
              /\ Cardinality(chosen("A_O", i)) = 1
        /\ b_pc = "done" =>
              \A i \in b_model.batches :
                 /\ chosen_in_response("A_I", i) = chosen("A_I", i)
                 /\ chosen_in_response("A_O", i) = chosen("A_O", i)
                 /\ {k \in b_model.bools.A_I : b_response[1].df_AI[k][i + 1] = 1}
                       = chosen("A_I", i)
                 /\ {k \in b_model.bools.A_O : b_response[1].df_AO[k][i + 1] = 1}
                       = chosen("A_O", i)

\* the decoded tables of two batches that chose different inputs and
\* different outputs
C17_Witness ==
    /\ b_pc = "done"
    /\ BatchReturned
    /\ input_data.NoBatches = 2
    /\ chosen_in_response("A_I", 0) # chosen_in_response("A_I", 1)
    /\ chosen_in_response("A_O", 0) # chosen_in_response("A_O", 1)

(* C18. Conditional duration: in every assignment the batch solver         *)
(* returns, for every batch the input transfer duration D_INPUT equals     *)
(* Tin[k] for the input option k whose indicator is 1, and the output      *)
(* transfer duration D_OUTPUT equals Tout[k'] for the output option k'     *)
(* whose indicator is 1.                                                   *)
C18_ConditionalDuration ==
    BatchReturned =>
        \A i \in b_model.batches :
            /\ \A k \in chosen("A_I", i) :
                  b_solver.values[i].D_INPUT = input_data.Tin[k]
            /\ \A k \in chosen("A_O", i) :
                  b_solver.values[i].D_OUTPUT = input_data.Tout[k]

\* [a1, a2) and [b1, b2) have no point in common
apart(a1, a2, b1, b2) == a2 <= b1 \/ b2 <= a1

(* C19. Buffer exclusion: in every assignment the batch solver returns,    *)
(* any two distinct batches have disjoint buffer time intervals            *)
(* [S_BUFFER, E_BUFFER) or disjoint volume intervals                       *)
(* [V_BUFFER_1, V_BUFFER_1 + V), and every volume interval lies within     *)
(* [0, VMaxBuffer]; the rows of df_integer show the same.                  *)
C19_BufferExclusion ==
    BatchReturned =>
        /\ \A i \in b_model.batches :
              /\ 0 <= b_solver.values[i].V_BUFFER_1
              /\ b_solver.values[i].V_BUFFER_1 + input_data.V
                    <= input_data.VMaxBuffer
        /\ \A i, j \in b_model.batches :
              i # j =>
                 \/ apart(b_solver.values[i].S_BUFFER, b_solver.values[i].E_BUFFER,
                          b_solver.values[j].S_BUFFER, b_solver.values[j].E_BUFFER)
                 \/ apart(b_solver.values[i].V_BUFFER_1,
                          b_solver.values[i].V_BUFFER_1 + input_data.V,
                          b_solver.values[j].V_BUFFER_1,
                          b_solver.values[j].V_BUFFER_1 + input_data.V)
        /\ b_pc = "done" =>
              \A i, j \in b_model.batches :
                 i # j =>
                    \/ apart(b_response[1].df_integer[i].S_Buffer,
                             b_response[1].df_integer[i].E_Buffer,
                             b_response[1].df_integer[j].S_Buffer,
                             b_response[1].df_integer[j].E_Buffer)
                    \/ apart(b_response[1].df_integer[i].V_Buffer_1,
                             b_response[1].df_integer[i].V_Buffer_2,
                             b_response[1].df_integer[j].V_Buffer_1,
                             b_response[1].df_integer[j].V_Buffer_2)

\* two batches in the buffer at the same time, at different volume levels
C19_Witness ==
    /\ b_pc = "done"
    /\ BatchReturned
    /\ input_data.NoBatches = 2
    /\ b_solver.values[0].S_BUFFER < b_solver.values[1].E_BUFFER
    /\ b_solver.values[1].S_BUFFER < b_solver.values[0].E_BUFFER
    /\ b_solver.values[0].V_BUFFER_1 # b_solver.values[1].V_BUFFER_1

(* C20. Enumeration early stop: once StopSearch was called no further      *)
(* solution is printed or counted; the callback that brings the count to   *)
(* solution_limit calls StopSearch; and for every solution_limit the       *)
(* number of solutions printed, which is the number reported at the end,   *)
(* never exceeds solution_limit.                                           *)
C20_EarlyStop ==
    [][/\ n_stopped
          => (n_printed' = n_printed /\ solution_count' = solution_count)
       /\ (solution_count' # solution_count /\ solution_count' >= solution_limit)
          => n_stopped'
       /\ Len(n_printed') <= solution_limit
       /\ solution_count' <= solution_limit]_vars

----------------------------------------------------------------------------
(* C21: in every solution the nurse enumeration reports, on every day each *)
(* shift is assigned to exactly one nurse, and no nurse works more than    *)
(* one shift on the same day.                                              *)
C21_OneNursePerShift ==
    \A i \in DOMAIN n_printed :
        \A d \in 0..(num_days - 1) :
            /\ \A s \in 0..(num_shifts - 1) :
                  Cardinality({n \in 0..(num_nurses - 1) :
                                  s \in n_printed[i][d][n]}) = 1
            /\ \A n \in 0..(num_nurses - 1) :
                  Cardinality(n_printed[i][d][n]) <= 1

\* a solution was reported for an instance with more nurses than shifts and
\* more than one shift a day: some nurse has the day off, the others work
\* one shift each
C21_Witness ==
    /\ n_pc = "done"
    /\ num_nurses = 3
    /\ num_shifts = 2
    /\ num_days = 2
    /\ Len(n_printed) = 2
    /\ \E n \in 0..(num_nurses - 1) : n_printed[1][0][n] = {}
    /\ \E n \in 0..(num_nurses - 1) : n_printed[1][0][n] = {1}

----------------------------------------------------------------------------
(* C22: in every solution reported, each nurse works at least              *)
(* floor(num_shifts * num_days / num_nurses) shifts over the period and at *)
(* most that number when num_nurses divides num_shifts * num_days, that    *)
(* number plus one otherwise; with 4 nurses, 3 shifts and 3 days each      *)
(* nurse works at least two shifts.                                        *)

\* the data of the module body (lines 111-113), the search stopped at the
\* first solution
InitDocstring ==
    /\ num_nurses = 4
    /\ num_shifts = 3
    /\ num_days = 3
    /\ solution_limit = 1
    /\ n_model = <<>>
    /\ n_pc = "build_model"
    /\ solution_count = 0
    /\ n_printed = <<>>
    /\ n_stopped = FALSE
    /\ JobShopOff
    /\ BatchOff
    /\ limited = FALSE

SpecNursesEven == (InitNurses \/ InitDocstring) /\ [][NextNurses]_vars

\* the shifts nurse n works over the period in a reported solution
worked_in(text, n) ==
    SumOver(0..(num_days - 1), [d \in 0..(num_days - 1) |->
                                   Cardinality(text[d][n])])

C22_EvenDistribution ==
    \A i \in DOMAIN n_printed :
        \A n \in 0..(num_nurses - 1) :
            LET total == num_shifts * num_days
                floor == total \div num_nurses
                w == worked_in(n_printed[i], n)
            IN  /\ w >= floor
                /\ w <= IF total % num_nurses = 0 THEN floor ELSE floor + 1
                /\ (num_nurses = 4 /\ num_shifts = 3 /\ num_days = 3) => w >= 2

\* a solution of the 4 nurses, 3 shifts, 3 days instance was reported: one
\* nurse works three shifts and another two
C22_Witness ==
    /\ num_nurses = 4
    /\ num_shifts = 3
    /\ num_days = 3
    /\ Len(n_printed) = 1
    /\ \E n \in 0..3 : worked_in(n_printed[1], n) = 3
    /\ \E n \in 0..3 : worked_in(n_printed[1], n) = 2

----------------------------------------------------------------------------
(* C23: no state is retained across instances. The model built and the     *)
(* timetable decoded for a call are determined by the instance and the     *)
(* assignment passed to the call alone; changing data that is not passed   *)
(* to the call never changes its result.                                   *)

\* the job list build_model was called with, read back from what it built:
\* the sizes of the intervals and the machine lists
built_jobs_data ==
    LET keys == all_tasks_of(model)
        interval_of(k) == CHOOSE iv \in Range(model.intervals) : iv.key = k
        machine_with(k) == CHOOSE m \in DOMAIN machine_to_intervals :
                              k \in Range(machine_to_intervals[m])
    IN  [j \in 1..Cardinality({k[1] : k \in keys}) |->
            [t \in 1..Cardinality({k \in keys : k[1] = j - 1}) |->
                <<machine_with(<<j - 1, t - 1>>),
                  interval_of(<<j - 1, t - 1>>).size>>]]

\* build_response(solver, status, all_tasks, all_machines) has no jobs_data
\* parameter: line 192 reads the module-level name. The process binds the
\* name to the job list of another instance, of the same jobs and tasks and
\* different in one task, between solve_model and build_response.
RebindJobsData ==
    /\ pc = "build_response"
    /\ jobs_data = built_jobs_data
    /\ \E jd \in Instances :
          /\ enumerate_tasks(jd) = enumerate_tasks(jobs_data)
          /\ Cardinality({k \in Range(enumerate_tasks(jd)) :
                             task_at(jd, k) # task_at(jobs_data, k)}) = 1
          /\ jobs_data' = jd
    /\ UNCHANGED <<pc, limited, machines_count, horizon, model,
                   machine_to_intervals, status, solver, printed, response,
                   raised>>
    /\ UNCHANGED <<batch_vars, nurses_vars>>

NextRebind ==
    \/ Next
    \/ RebindJobsData

\* solve_model sets no time limit: the search runs to its end
InitOptimal == Init /\ limited = FALSE

SpecRebind == InitOptimal /\ [][NextRebind]_vars

C23_NoRetainedState ==
    (pc \in {"unpack", "done"} /\ response # <<>>)
        => response = build_response_of(status, solver, built_jobs_data,
                                        machines_count)

----------------------------------------------------------------------------
(* C24: the built model has one disjunctive constraint for every resource  *)
(* that has at least one task, over all the intervals of that resource; a  *)
(* resource id in [0, machines_count) without tasks contributes no         *)
(* constraint and causes no error.                                         *)
C24_OnePerUsedResource ==
    pc \notin {"build_model", "intervals", "no_overlap"}
        => /\ Len(model.no_overlap)
                 = Cardinality({machine_at(k) : k \in task_keys})
           /\ \A i \in DOMAIN model.no_overlap : model.no_overlap[i] # {}
           /\ \A m \in {machine_at(k) : k \in task_keys} :
                 \E i \in DOMAIN model.no_overlap :
                     model.no_overlap[i] = {k \in task_keys : machine_at(k) = m}

----------------------------------------------------------------------------
(* C25: every solve call moves BUILDING -> SOLVING -> exactly one of       *)
(* OPTIMAL, FEASIBLE, INFEASIBLE, TIMEOUT. BUILDING and SOLVING are never  *)
(* final, a terminal status is never left or changed, and the solver is    *)
(* invoked exactly once per call.                                          *)

\* build_model is running
Building == pc \in {"build_model", "intervals", "no_overlap", "precedences",
                    "objective"}

\* solve_model is about to call solver.Solve
Solving == pc = "solve_model"

\* the four terminal values; CP-SAT names the timeout UNKNOWN
TerminalStatuses == {"OPTIMAL", "FEASIBLE", "INFEASIBLE", "UNKNOWN"}

C25_StateMachine ==
    [][/\ Building => (status = "" /\ (Building' \/ Solving'))
       /\ Solving => (status = "" /\ status' \in TerminalStatuses)
       /\ status # "" => status' = status
       /\ status' # status => Solving
       /\ pc' \in {"done", "raised"} => status' \in TerminalStatuses]_vars

----------------------------------------------------------------------------
(* C26: the two definitions of the makespan coincide. In every assignment  *)
(* that satisfies the interval and precedence constraints of an instance   *)
(* whose jobs all have a task, the largest end of the last tasks of the    *)
(* jobs (what build_model constrains obj_var to) equals the largest end of *)
(* all tasks (what a decoder computes from the timetable).                 *)

\* the program as written: solve_model sets no time limit
SpecOptimal == InitOptimal /\ [][Next]_vars

\* the assignments that satisfy the intervals and the precedences of the
\* built model, whatever the machines
interval_precedence_assignments ==
    solutions([model EXCEPT !.no_overlap = <<>>], model.obj_var[1].ub)

C26_MakespanDefinitions ==
    pc = "solve_model" =>
        \A f \in interval_precedence_assignments :
            objective_of(model, f) = MaxOf({f[k].end : k \in DOMAIN f})

\* a built model of a job with two tasks of positive length has an
\* assignment in which another job ends before the first task of that job
C26_Witness ==
    /\ pc = "solve_model"
    /\ \E f \in interval_precedence_assignments :
          \E a, b, c \in DOMAIN f :
              /\ a[1] = b[1] /\ b[2] = a[2] + 1 /\ c[1] # a[1]
              /\ f[a].end > f[a].start /\ f[b].end > f[b].start
              /\ f[c].end < f[a].end

----------------------------------------------------------------------------
(* C27: for every well-formed instance and every returned schedule, the    *)
(* makespan is at least the largest sum of the durations of a job, at      *)
(* least the largest sum of the durations of the tasks of a machine, and   *)
(* at most the horizon (the sum of all durations).                         *)

\* the sum of the durations of the tasks among keys
durations_sum(keys) ==
    LET picked == SelectSeq(enumerate_tasks(jobs_data), LAMBDA k : k \in keys)
    IN  SumSeq([i \in 1..Len(picked) |-> duration_at(picked[i])])

C27_MakespanBounds ==
    pc = "done" =>
        LET makespan == response[1].optimal_makespan
        IN  /\ \A j \in {k[1] : k \in task_keys} :
                  makespan >= durations_sum({k \in task_keys : k[1] = j})
            /\ \A R \in {machine_at(k) : k \in task_keys} :
                  makespan >= durations_sum({k \in task_keys : machine_at(k) = R})
            /\ makespan <= durations_sum(task_keys)

\* a returned schedule whose makespan is the load of a machine shared by two
\* jobs, above the length of every job and below the horizon
C27_Witness ==
    /\ pc = "done"
    /\ \E R \in {machine_at(k) : k \in task_keys} :
          /\ response[1].optimal_makespan
                = durations_sum({k \in task_keys : machine_at(k) = R})
          /\ \E a, b \in task_keys : a[1] # b[1] /\ machine_at(a) = R /\ machine_at(b) = R
    /\ \A j \in {k[1] : k \in task_keys} :
          response[1].optimal_makespan
             > durations_sum({k \in task_keys : k[1] = j})
    /\ response[1].optimal_makespan < durations_sum(task_keys)

----------------------------------------------------------------------------
(* C28: both families of conditional constraints of the batch model target *)
(* D_INPUT. In every returned assignment Tin of the chosen input option,   *)
(* Tout of the chosen output option and D_INPUT are equal for every batch, *)
(* so an input option whose duration is the duration of no output option   *)
(* is never chosen, and the model is infeasible when the two tables share  *)
(* no value; D_OUTPUT is tied to no option.                                *)

\* the instances of SpecBatch, and instances of one batch in which an
\* output option takes MaxTime, the duration of no input option
BatchTableInstances ==
    BatchInstances
    \cup [NoBatches : {1},
          Inputs : {<<"IN1", "IN2">>},
          Outputs : {<<"ROP1", "ROP2">>},
          V : {1},
          VMaxBuffer : 0..MaxVolume,
          Tin : {("IN1" :> 1) @@ ("IN2" :> 2)},
          Tout : [{"ROP1", "ROP2"} -> {1, MaxTime}],
          Tmin : {0},
          Tmax : {MaxTime}]

InitBatchTables ==
    /\ \E d \in BatchTableInstances : InitBatchWith(d)
    /\ limited = FALSE

SpecBatchTables == InitBatchTables /\ [][NextBatch]_vars

\* the durations of the options of a table
table_values(table) == {table[k] : k \in DOMAIN table}

C28_SharedDuration ==
    /\ b_model # <<>> =>
          \A c \in b_model.only_enforce_if : c.var = "D_INPUT"
    /\ BatchReturned =>
          \A i \in b_model.batches :
              /\ \A k \in chosen("A_I", i) :
                    /\ input_data.Tin[k] = b_solver.values[i].D_INPUT
                    /\ input_data.Tin[k] \in table_values(input_data.Tout)
              /\ \A k \in chosen("A_O", i) :
                    /\ input_data.Tout[k] = b_solver.values[i].D_INPUT
                    /\ input_data.Tout[k] \in table_values(input_data.Tin)
    /\ (b_status # ""
        /\ table_values(input_data.Tin) \cap table_values(input_data.Tout) = {})
          => b_status = "INFEASIBLE"

\* a returned assignment of an instance in which IN2 takes the duration of
\* no output option: IN1 is chosen, and D_OUTPUT is not the duration of the
\* chosen output option
C28_Witness ==
    /\ BatchReturned
    /\ b_pc = "done"
    /\ 2 \notin table_values(input_data.Tout)
    /\ chosen("A_I", 0) = {"IN1"}
    /\ \E k \in chosen("A_O", 0) :
          b_solver.values[0].D_OUTPUT # input_data.Tout[k]

----------------------------------------------------------------------------
(* C29: in every returned assignment of the batch model, at every time t   *)
(* at most floor(VMaxBuffer / V) batches are in the buffer (t within       *)
(* [S_BUFFER, E_BUFFER)), every batch stays in the buffer for at least one *)
(* time unit, and the phases of a batch are contiguous: S_BUFFER = E_INPUT *)
(* and S_OUTPUT = E_BUFFER.                                                *)

\* instances with batches of volume 1 and 2 and a buffer of up to
\* MaxVolume + 1, the transfer times of the options fixed
BatchVolumeInstances ==
    [NoBatches : 1..MaxBatches,
     Inputs : {<<"IN1", "IN2">>},
     Outputs : {<<"ROP1", "ROP2">>},
     V : {1, 2},
     VMaxBuffer : 0..(MaxVolume + 1),
     Tin : {("IN1" :> 1) @@ ("IN2" :> 2)},
     Tout : {("ROP1" :> 1) @@ ("ROP2" :> 2)},
     Tmin : {0},
     Tmax : {MaxTime}]

InitBatchVolumes ==
    /\ \E d \in BatchVolumeInstances : InitBatchWith(d)
    /\ limited = FALSE

SpecBatchVolumes == InitBatchVolumes /\ [][NextBatch]_vars

\* the batches in the buffer at time t
in_buffer(t) ==
    {i \in b_model.batches :
        b_solver.values[i].S_BUFFER <= t /\ t < b_solver.values[i].E_BUFFER}

C29_BufferCapacity ==
    BatchReturned =>
        /\ \A t \in input_data.Tmin..input_data.Tmax :
              Cardinality(in_buffer(t)) <= input_data.VMaxBuffer \div input_data.V
        /\ \A i \in b_model.batches :
              /\ b_solver.values[i].E_BUFFER - b_solver.values[i].S_BUFFER >= 1
              /\ b_solver.values[i].S_BUFFER = b_solver.values[i].E_INPUT
              /\ b_solver.values[i].S_OUTPUT = b_solver.values[i].E_BUFFER

\* two batches of volume 2 and a buffer of 3: one batch at a time, one
\* enters the buffer when the other leaves it
C29_Witness ==
    /\ BatchReturned
    /\ b_pc = "done"
    /\ input_data.NoBatches = 2
    /\ input_data.V = 2
    /\ input_data.VMaxBuffer = 3
    /\ \E i, j \in b_model.batches :
          b_solver.values[j].S_BUFFER = b_solver.values[i].E_BUFFER

----------------------------------------------------------------------------
(* C30: the batch model minimizes the completion time of the schedule: in  *)
(* every optimal assignment the objective value is the largest buffer end  *)
(* E_BUFFER of all batches, so no batch leaves the buffer after the        *)
(* objective value reported, also when there are more batches than         *)
(* floor(VMaxBuffer / V).                                                  *)
C30_ObjectiveIsCompletionTime ==
    b_status = "OPTIMAL" =>
        b_solver.objective
           = MaxOf({b_solver.values[i].E_BUFFER : i \in b_model.batches})

====
